---- MODULE Spec2Model ----
(***************************************************************************)
(* Model of the CVE analysis services of the repository:                   *)
(*   finallayer3.py  (script:  summarize -> fetch_epss -> predict)         *)
(*   fastapi(1).py   (POST /json, in-memory DATA_STORE)                    *)
(*   fastapi(2).py   (POST /analyze, optional completion credential)       *)
(*                                                                         *)
(* Probabilities are fixed-point integers.  An EPSS value p is held as     *)
(* p * 10^7 (Scale); a growth multiplier g as g * 100; their product is    *)
(* therefore in units of 10^-9; a value rounded to 5 decimal places is     *)
(* held as value * 10^5.  Python's round(x, 5) rounds the binary double    *)
(* nearest to the product: when the decimal product lies exactly half way  *)
(* between two 5-place values the double may sit on either side, so the    *)
(* direction of the rounding is a choice (tie \in 0..1) in that case only. *)
(***************************************************************************)
EXTENDS Integers, Sequences, FiniteSets, TLC

VARIABLES variant, credential, pc, cve, completion, ai, oracle,
          epss_now, epss_30, tie, result, DATA_STORE, calls,
          steps, completed, overwrote, visuals

vars == <<variant, credential, pc, cve, completion, ai, oracle,
          epss_now, epss_30, tie, result, DATA_STORE, calls,
          steps, completed, overwrote, visuals>>

(***************************************************************************)
(* Fixed-point units                                                       *)
(***************************************************************************)
Scale == 10000000
ProdCap == 1000000000
RoundUnit == 10000
One5 == 100000

\* bounds of the input sets
GridN == 40
Near == 2
FineN == 30

Min(a, b) == IF a < b THEN a ELSE b

\* round(x, 5) of a product x held in units of 10^-9; result in units of 10^-5
Round5(x, t) ==
  LET q == x \div RoundUnit
      r == x % RoundUnit
  IN  IF 2 * r < RoundUnit THEN q
      ELSE IF 2 * r > RoundUnit THEN q + 1
      ELSE q + t

IsTie(x) == 2 * (x % RoundUnit) = RoundUnit

(***************************************************************************)
(* Projection engines                                                      *)
(***************************************************************************)
\* the first band closed at 0.005 instead of open
Fl3Growth_closed_band(current) ==
  IF current <= 50000 THEN 130
  ELSE IF current < 200000 THEN 115
  ELSE IF current < 1000000 THEN 105
  ELSE 97

\* finallayer3.py predict_epss_30d
Fl3Growth(current) ==
  IF current < 50000 THEN 130
  ELSE IF current < 200000 THEN 115
  ELSE IF current < 1000000 THEN 105
  ELSE 97

Fl3_predict_epss_30d(current, t) ==
  Round5(Min(ProdCap, current * Fl3Growth(current)), t)

\* fastapi(1).py predict_epss_30d
F1Growth(cur) ==
  IF cur < 100000 THEN 150
  ELSE IF cur < 500000 THEN 130
  ELSE IF cur < 2000000 THEN 115
  ELSE IF cur < 5000000 THEN 108
  ELSE 103

F1_predict_epss_30d(cur, t) ==
  Round5(Min(ProdCap, cur * F1Growth(cur)), t)

\* the multiplier of the canonical [0.02, 0.10) band instead of the flat 1.15
epss_predict_band(current, t) == Round5(current * 105, t)

\* fastapi(2).py epss_predict
epss_predict(current, t) == Round5(current * 115, t)

Predict(v, cur, t) ==
  IF v = "finallayer3" THEN Fl3_predict_epss_30d(cur, t)
  ELSE IF v = "fastapi1" THEN F1_predict_epss_30d(cur, t)
  ELSE epss_predict(cur, t)

Variants == {"finallayer3", "fastapi1", "fastapi2"}

\* band thresholds of the three tables, and the ends of [0,1]
Thresholds == {0, 50000, 100000, 200000, 500000, 1000000, 2000000, 5000000, Scale}

Currents ==
  { (k * Scale) \div GridN : k \in 0..GridN }
  \cup { c \in { th + d : th \in Thresholds, d \in (0 - Near)..Near } : c >= 0 /\ c <= Scale }
  \cup { 500 * k : k \in 0..FineN }
  \cup { 10 * k : k \in 0..FineN }

(***************************************************************************)
(* Text: Python strings that the code inspects are sequences of characters *)
(***************************************************************************)
DigitChars == {"0", "1", "2", "3", "4", "5", "6", "7", "8", "9"}

LowerLetters == <<"a", "b", "c", "d", "e", "g", "h", "i", "l", "m", "n", "o",
                  "r", "s", "t", "u", "v", "w", "x">>
UpperLetters == <<"A", "B", "C", "D", "E", "G", "H", "I", "L", "M", "N", "O",
                  "R", "S", "T", "U", "V", "W", "X">>

\* str.upper() and str.lower(), character by character
UpperChar(c) ==
  IF \E i \in DOMAIN LowerLetters : LowerLetters[i] = c
  THEN UpperLetters[CHOOSE i \in DOMAIN LowerLetters : LowerLetters[i] = c]
  ELSE c
LowerChar(c) ==
  IF \E i \in DOMAIN UpperLetters : UpperLetters[i] = c
  THEN LowerLetters[CHOOSE i \in DOMAIN UpperLetters : UpperLetters[i] = c]
  ELSE c
Upper(s) == [i \in DOMAIN s |-> UpperChar(s[i])]
Lower(s) == [i \in DOMAIN s |-> LowerChar(s[i])]

\* Python's  sub in s
Contains(s, sub) ==
  \E k \in 0..(Len(s) - Len(sub)) : \A i \in 1..Len(sub) : s[k + i] = sub[i]

\* fastapi(1).py CVEInput.cve_id:  pattern ^CVE-\d{4}-\d{4,10}$
MatchesCvePattern(s) ==
  \E n \in 4..10 :
    /\ Len(s) = 9 + n
    /\ s[1] = "C" /\ s[2] = "V" /\ s[3] = "E" /\ s[4] = "-"
    /\ \A i \in 5..8 : s[i] \in DigitChars
    /\ s[9] = "-"
    /\ \A i \in 10..(9 + n) : s[i] \in DigitChars

\* fastapi(2).py CVEInput.validate_severity: the accepted set
SeverityEnum == { <<"C", "R", "I", "T", "I", "C", "A", "L">>, <<"H", "I", "G", "H">>, <<"M", "E", "D", "I", "U", "M">>, <<"L", "O", "W">>, <<"N", "O", "N", "E">> }

(***************************************************************************)
(* Input records                                                           *)
(***************************************************************************)
IdWebp == <<"C", "V", "E", "-", "2", "0", "2", "3", "-", "4", "8", "6", "3">>
IdSsh == <<"C", "V", "E", "-", "2", "0", "2", "4", "-", "6", "3", "8", "7">>
IdNotACve == <<"n", "o", "t", "-", "a", "-", "c", "v", "e">>
IdShort == <<"C", "V", "E", "-", "2", "0", "2", "3", "-", "1", "2", "3">>
CveIds == {IdWebp, IdSsh, IdNotACve, IdShort}

Severities == { <<"C", "R", "I", "T", "I", "C", "A", "L">>, <<"h", "i", "g", "h">>, <<"E", "X", "T", "R", "E", "M", "E">> }

\* cvss_score in tenths
CvssScores == {0 - 1, 0, 98, 110}

NoVector == "None"
CvssVectors == {NoVector, "AV:N/AC:L/PR:N/UI:N/S:U/C:H/I:H/A:H"}

Summaries == { <<"b", "u", "g">>, <<"O", "p", "e", "n", "S", "S", "H">>, <<"l", "i", "n", "u", "x">> }
Descriptions == { <<".", ".", ".">>, <<"o", "n", " ", "L", "i", "n", "u", "x">>, <<"s", "s", "h">> }

Records ==
  [cve_id : CveIds, cvss_vector : CvssVectors, severity : Severities,
   cvss_score : CvssScores, summary : Summaries, description : Descriptions]

\* finallayer3.py sample_input (texts abbreviated to their leading words)
sample_input ==
  [cve_id |-> <<"C", "V", "E", "-", "2", "0", "2", "6", "-", "2", "1", "4", "2", "8">>, cvss_vector |-> NoVector, severity |-> <<"H", "I", "G", "H">>,
   cvss_score |-> 77, summary |-> <<"h", "e", "a", "d", "e", "r">>, description |-> <<"C", "R", "L", "F">>]

NoRecord ==
  [cve_id |-> <<>>, cvss_vector |-> NoVector, severity |-> <<>>,
   cvss_score |-> 0, summary |-> <<>>, description |-> <<>>]

\* fastapi(1).py CVEInput: pattern on cve_id, cvss_vector required,
\* severity any string, 0 <= cvss_score <= 10
F1_CVEInput_valid(rec) ==
  /\ MatchesCvePattern(rec.cve_id)
  /\ rec.cvss_vector # NoVector
  /\ rec.cvss_score >= 0 /\ rec.cvss_score <= 100

\* fastapi(2).py CVEInput: cve_id any string, severity upper-cased and checked,
\* 0 <= cvss_score <= 10
F2_CVEInput_valid(rec) ==
  /\ Upper(rec.severity) \in SeverityEnum
  /\ rec.cvss_score >= 0 /\ rec.cvss_score <= 100

\* the validated model: fastapi(2).py stores the upper-cased severity
F2_CVEInput(rec) == [rec EXCEPT !.severity = Upper(rec.severity)]

(***************************************************************************)
(* The completion collaborator: what requests.post can produce             *)
(***************************************************************************)
\* The text of choices[0].message.content: optional prose around a body.
\*   text              no JSON and no braces
\*   bad_braces        {...} that is not JSON
\*   array             a JSON array
\*   obj_full5         a JSON object with the five fields of fastapi(2).py's prompt
\*   obj_full4         a JSON object with the four fields of the other prompts
\*   obj_empty_lists   five fields, affected_products and fixes empty
\*   obj_empty         {}
Bodies == {"text", "bad_braces", "array", "obj_full5", "obj_full4",
           "obj_empty_lists", "obj_empty"}
BracedBodies == {"bad_braces", "obj_full5", "obj_full4", "obj_empty_lists", "obj_empty"}
ObjectBodies == {"obj_full5", "obj_full4", "obj_empty_lists", "obj_empty"}

CallFailures == {"network_error", "timeout", "http_error", "bad_envelope"}

CompletionOutcomes ==
  [kind : CallFailures, prose : {FALSE}, body : {"none"}]
  \cup [kind : {"content"}, prose : {FALSE}, body : Bodies]
  \cup [kind : {"content"}, prose : {TRUE}, body : Bodies \ {"text"}]

NotCalled == [kind |-> "not_called", prose |-> FALSE, body |-> "none"]

AiSummary == <<"A", "I">>
AiDescription == <<"A", "I", " ", "t", "e", "x", "t">>

\* Python values returned by the completion step
PyDict(f) == [kind |-> "dict", d |-> f]
PyList == [kind |-> "list", d |-> <<>>]
PyNone == [kind |-> "none", d |-> <<>>]

BundleFields == {"simple_summary", "simple_description", "affected_products", "fixes"}

ObjectOf(body) ==
  IF body = "obj_full5" THEN
    [simple_summary |-> AiSummary, simple_description |-> AiDescription,
     affected_products |-> <<"libwebp 1.3.1">>, affected_assets |-> <<"Browsers">>,
     fixes |-> <<"Update libwebp", "Restart services">>]
  ELSE IF body = "obj_full4" THEN
    [simple_summary |-> AiSummary, simple_description |-> AiDescription,
     affected_products |-> <<"libwebp 1.3.1">>,
     fixes |-> <<"Update libwebp", "Restart services">>]
  ELSE IF body = "obj_empty_lists" THEN
    [simple_summary |-> AiSummary, simple_description |-> AiDescription,
     affected_products |-> <<>>, affected_assets |-> <<>>, fixes |-> <<>>]
  ELSE [k \in {} |-> <<>>]

\* json.loads of the whole content (fastapi(2).py line 155)
JsonLoadsContent(o) ==
  IF o.prose \/ o.body \in {"text", "bad_braces"}
  THEN [raised |-> TRUE, value |-> PyNone]
  ELSE IF o.body = "array" THEN [raised |-> FALSE, value |-> PyList]
  ELSE [raised |-> FALSE, value |-> PyDict(ObjectOf(o.body))]

\* re.search(r"\{.*\}", content, re.DOTALL): first brace to last brace
ReSearchBraces(o) == o.body \in BracedBodies

\* json.loads(match.group())
JsonLoadsMatch(o) ==
  IF o.body \in ObjectBodies
  THEN [raised |-> FALSE, value |-> PyDict(ObjectOf(o.body))]
  ELSE [raised |-> TRUE, value |-> PyNone]

(***************************************************************************)
(* fastapi(2).py ai_analyze                                                *)
(***************************************************************************)
generic_products == <<"Affected software components">>

\* the generic placeholder forgotten
fallback_products_no_placeholder(c) ==
  (IF Contains(Lower(c.summary), <<"s", "s", "h">>) THEN <<"OpenSSH">> ELSE <<>>)
  \o (IF Contains(Lower(c.description), <<"l", "i", "n", "u", "x">>) THEN <<"Linux systems">> ELSE <<>>)

fallback_products(c) ==
  LET p1 == IF Contains(Lower(c.summary), <<"s", "s", "h">>) THEN <<"OpenSSH">> ELSE <<>>
      p2 == IF Contains(Lower(c.description), <<"l", "i", "n", "u", "x">>)
            THEN <<"Linux systems">> ELSE <<>>
  IN  IF p1 \o p2 = <<>> THEN generic_products ELSE p1 \o p2

fallback_assets == <<"Servers", "Production systems", "Internet-facing hosts">>

fallback_fixes ==
  <<"Apply vendor security patches", "Upgrade to the latest stable version",
    "Restrict network access", "Monitor logs for exploitation attempts">>

fallback_bundle(c) ==
  [simple_summary |-> c.summary, simple_description |-> c.description,
   affected_products |-> fallback_products(c),
   affected_assets |-> fallback_assets, fixes |-> fallback_fixes]

\* the value ai_analyze returns when the call is made and has outcome o
ai_analyze_called(c, o) ==
  IF o.kind # "content" THEN PyDict(fallback_bundle(c))
  ELSE IF JsonLoadsContent(o).raised THEN PyDict(fallback_bundle(c))
  ELSE JsonLoadsContent(o).value

(***************************************************************************)
(* fastapi(1).py ai_generate_analysis                                      *)
(***************************************************************************)
unavailable_bundle ==
  [simple_summary |-> <<"A", "I", " ", "a", "n", "a", "l", "y", "s", "i", "s", " ", "u", "n", "a", "v", "a", "i", "l", "a", "b", "l", "e">>, simple_description |-> <<"F", "a", "i", "l", "e", "d", " ", "t", "o", " ", "g", "e", "n", "e", "r", "a", "t", "e", " ", "A", "I", " ", "a", "n", "a", "l", "y", "s", "i", "s">>,
   affected_products |-> <<>>, fixes |-> <<>>]

ai_generate_analysis(o) ==
  IF o.kind # "content" THEN PyDict(unavailable_bundle)
  ELSE IF ~ReSearchBraces(o) THEN PyDict([k \in {} |-> <<>>])
  ELSE IF JsonLoadsMatch(o).raised THEN PyDict(unavailable_bundle)
  ELSE JsonLoadsMatch(o).value

(***************************************************************************)
(* finallayer3.py CVESummarizer.summarize                                  *)
(***************************************************************************)
summarize(o) ==
  IF o.kind # "content" THEN [raised |-> TRUE, value |-> PyNone]
  ELSE IF ~ReSearchBraces(o) THEN [raised |-> TRUE, value |-> PyNone]
  ELSE JsonLoadsMatch(o)

(***************************************************************************)
(* The score oracle: what requests.get can produce                         *)
(***************************************************************************)
EpssValues == {200000, 9000000}

OracleFailures == {"network_error", "timeout", "http_error", "malformed", "empty"}

OracleOutcomes ==
  [kind : OracleFailures, epss : {0}] \cup [kind : {"ok"}, epss : EpssValues]

NoOracle == [kind |-> "not_called", epss |-> 0]

\* fastapi(1).py fetch_epss and fastapi(2).py epss_live: every failure is 0.0
F1_fetch_epss(o) == IF o.kind = "ok" THEN o.epss ELSE 0

epss_live(o) == IF o.kind = "ok" THEN o.epss ELSE 0

\* finallayer3.py fetch_epss: no try/except, RuntimeError on an empty list
Fl3_fetch_epss(o) ==
  IF o.kind = "ok" THEN [raised |-> FALSE, value |-> o.epss]
  ELSE [raised |-> TRUE, value |-> 0]

(***************************************************************************)
(* State                                                                   *)
(*   variant     which service runs                                        *)
(*   credential  whether the completion key is set (fastapi(2).py reads it *)
(*               from the environment; the other two hard-code it)         *)
(*   pc          position of the request in hand                           *)
(*   cve         the validated input model                                 *)
(*   completion  outcome of the completion call, oracle of the EPSS call   *)
(*   ai, epss_now, epss_30   the handler's locals                          *)
(*   result      what reaches the caller                                   *)
(*   calls       external calls made for the request in hand               *)
(***************************************************************************)
NoResult == [status |-> "none", body |-> <<>>, origin |-> ""]
Raised(f) == [status |-> "exception", body |-> <<>>, origin |-> f]
Invalid(rec) == [status |-> "invalid", body |-> rec, origin |-> ""]
Ok(b) == [status |-> "ok", body |-> b, origin |-> ""]
NoCalls == [completion |-> 0, oracle |-> 0]
Finished == {"done", "rejected", "failed"}

\* History of the run, kept beside the program's state:
\*   steps      the steps run so far for the request in hand, in order
\*   completed  per identifier, the (cvss_score, epss_now, epss_30) of the
\*              valid analysis of it that completed last
\*   overwrote  the request in hand replaced an earlier, different entry of
\*              DATA_STORE
\* visuals is the answer of a GET /visuals/{cve_id} on its way to the
\* caller; any later step of the server finds it delivered.
NoVisuals == [status |-> 0, cve_id |-> <<>>, data |-> <<>>]
Delivered == visuals' = NoVisuals

Merge(f, g) ==
  [k \in DOMAIN f \cup DOMAIN g |-> IF k \in DOMAIN g THEN g[k] ELSE f[k]]

\* the product the projection rounds, for the choice of tie
Product(v, cur) ==
  IF v = "finallayer3" THEN Min(ProdCap, cur * Fl3Growth(cur))
  ELSE IF v = "fastapi1" THEN Min(ProdCap, cur * F1Growth(cur))
  ELSE cur * 115

TieChoices(v, cur) == IF IsTie(Product(v, cur)) THEN {0, 1} ELSE {0}

Init ==
  /\ variant \in Variants
  /\ credential \in (IF variant = "fastapi2" THEN BOOLEAN ELSE {TRUE})
  /\ pc = "idle"
  /\ cve = NoRecord
  /\ completion = NotCalled
  /\ ai = PyNone
  /\ oracle = NoOracle
  /\ epss_now = 0
  /\ epss_30 = 0
  /\ tie = 0
  /\ result = NoResult
  /\ DATA_STORE = [k \in {} |-> <<>>]
  /\ calls = NoCalls
  /\ steps = <<>>
  /\ completed = [k \in {} |-> <<>>]
  /\ overwrote = FALSE
  /\ visuals = NoVisuals

\* a new request starts with fresh locals
Fresh ==
  /\ completion' = NotCalled
  /\ ai' = PyNone
  /\ oracle' = NoOracle
  /\ epss_now' = 0
  /\ epss_30' = 0
  /\ tie' = 0
  /\ calls' = NoCalls
  /\ steps' = <<>>
  /\ overwrote' = FALSE

(***************************************************************************)
(* Step 1: the input model                                                 *)
(***************************************************************************)
\* fastapi(1).py analyze: CVEInput(**json.loads(json_input)), "Invalid JSON" page
F1_CVEInput(rec) ==
  [cve_id |-> rec.cve_id, cvss_vector |-> rec.cvss_vector,
   severity |-> rec.severity, cvss_score |-> rec.cvss_score]

F1_Validate ==
  /\ variant = "fastapi1"
  /\ pc = "idle"
  /\ \E rec \in Records :
       IF F1_CVEInput_valid(rec)
       THEN /\ cve' = F1_CVEInput(rec)
            /\ pc' = "validated"
            /\ result' = NoResult
       ELSE /\ cve' = NoRecord
            /\ pc' = "rejected"
            /\ result' = Invalid(rec)
  /\ Fresh
  /\ UNCHANGED <<variant, credential, DATA_STORE,
                 completed>>
  /\ Delivered

\* fastapi(2).py analyze(cve: CVEInput): the framework validates the body
F2_Validate ==
  /\ variant = "fastapi2"
  /\ pc = "idle"
  /\ \E rec \in Records :
       IF F2_CVEInput_valid(rec)
       THEN /\ cve' = F2_CVEInput(rec)
            /\ pc' = "validated"
            /\ result' = NoResult
       ELSE /\ cve' = NoRecord
            /\ pc' = "rejected"
            /\ result' = Invalid(rec)
  /\ Fresh
  /\ UNCHANGED <<variant, credential, DATA_STORE,
                 completed>>
  /\ Delivered

\* finallayer3.py __main__: the hard-coded sample, no validation, one run
Fl3_Main ==
  /\ variant = "finallayer3"
  /\ pc = "idle"
  /\ cve' = sample_input
  /\ pc' = "validated"
  /\ result' = NoResult
  /\ Fresh
  /\ UNCHANGED <<variant, credential, DATA_STORE,
                 completed>>
  /\ Delivered

(***************************************************************************)
(* Step 2/3: the completion step                                           *)
(***************************************************************************)
\* fastapi(2).py ai_analyze: no call without a credential
ai_analyze(c, cred, o) ==
  IF ~cred THEN PyDict(fallback_bundle(c)) ELSE ai_analyze_called(c, o)

F2_AiAnalyze ==
  /\ variant = "fastapi2"
  /\ pc = "validated"
  /\ \E o \in (IF credential THEN CompletionOutcomes ELSE {NotCalled}) :
       /\ completion' = o
       /\ ai' = ai_analyze(cve, credential, o)
  /\ calls' = [calls EXCEPT !.completion = IF credential THEN @ + 1 ELSE @]
  /\ pc' = "ai_done"
  /\ UNCHANGED <<variant, credential, cve, oracle, epss_now, epss_30, tie,
                 result, DATA_STORE,
                 completed, overwrote>>
  /\ steps' = Append(steps, "completion")
  /\ Delivered

F1_AiGenerate ==
  /\ variant = "fastapi1"
  /\ pc = "validated"
  /\ \E o \in CompletionOutcomes :
       /\ completion' = o
       /\ ai' = ai_generate_analysis(o)
  /\ calls' = [calls EXCEPT !.completion = @ + 1]
  /\ pc' = "ai_done"
  /\ UNCHANGED <<variant, credential, cve, oracle, epss_now, epss_30, tie,
                 result, DATA_STORE,
                 completed, overwrote>>
  /\ steps' = Append(steps, "completion")
  /\ Delivered

\* finallayer3.py: an exception of summarize ends the script
Fl3_Summarize ==
  /\ variant = "finallayer3"
  /\ pc = "validated"
  /\ \E o \in CompletionOutcomes :
       /\ completion' = o
       /\ ai' = summarize(o).value
       /\ pc' = IF summarize(o).raised THEN "failed" ELSE "ai_done"
       /\ result' = IF summarize(o).raised
                    THEN Raised("summarize") ELSE result
  /\ calls' = [calls EXCEPT !.completion = @ + 1]
  /\ UNCHANGED <<variant, credential, cve, oracle, epss_now, epss_30, tie,
                 DATA_STORE,
                 completed, overwrote>>
  /\ steps' = Append(steps, "completion")
  /\ Delivered

(***************************************************************************)
(* Step 4: the score oracle                                                *)
(***************************************************************************)
F1_FetchEpss ==
  /\ variant = "fastapi1"
  /\ pc = "ai_done"
  /\ \E o \in OracleOutcomes :
       /\ oracle' = o
       /\ epss_now' = F1_fetch_epss(o)
  /\ calls' = [calls EXCEPT !.oracle = @ + 1]
  /\ pc' = "epss_done"
  /\ UNCHANGED <<variant, credential, cve, completion, ai, epss_30, tie,
                 result, DATA_STORE,
                 completed, overwrote>>
  /\ steps' = Append(steps, "oracle")
  /\ Delivered

F2_EpssLive ==
  /\ variant = "fastapi2"
  /\ pc = "ai_done"
  /\ \E o \in OracleOutcomes :
       /\ oracle' = o
       /\ epss_now' = epss_live(o)
  /\ calls' = [calls EXCEPT !.oracle = @ + 1]
  /\ pc' = "epss_done"
  /\ UNCHANGED <<variant, credential, cve, completion, ai, epss_30, tie,
                 result, DATA_STORE,
                 completed, overwrote>>
  /\ steps' = Append(steps, "oracle")
  /\ Delivered

Fl3_FetchEpss ==
  /\ variant = "finallayer3"
  /\ pc = "ai_done"
  /\ \E o \in OracleOutcomes :
       /\ oracle' = o
       /\ epss_now' = Fl3_fetch_epss(o).value
       /\ pc' = IF Fl3_fetch_epss(o).raised THEN "failed" ELSE "epss_done"
       /\ result' = IF Fl3_fetch_epss(o).raised
                    THEN Raised("fetch_epss") ELSE result
  /\ calls' = [calls EXCEPT !.oracle = @ + 1]
  /\ UNCHANGED <<variant, credential, cve, completion, ai, epss_30, tie,
                 DATA_STORE,
                 completed, overwrote>>
  /\ steps' = Append(steps, "oracle")
  /\ Delivered

(***************************************************************************)
(* Step 5: the projection                                                  *)
(***************************************************************************)
PredictStep ==
  /\ pc = "epss_done"
  /\ \E t \in TieChoices(variant, epss_now) :
       /\ tie' = t
       /\ epss_30' = Predict(variant, epss_now, t)
  /\ pc' = "predicted"
  /\ UNCHANGED <<variant, credential, cve, completion, ai, oracle, epss_now,
                 result, calls, DATA_STORE,
                 completed, overwrote>>
  /\ steps' = Append(steps, "projection")
  /\ Delivered

(***************************************************************************)
(* Step 6: assembly                                                        *)
(***************************************************************************)
EpssFields == [epss_score |-> epss_now, epss_30d_prediction |-> epss_30]

HasKeys(v, keys) == v.kind = "dict" /\ keys \subseteq DOMAIN v.d

\* fastapi(1).py analyze lines 184-200: store the triple, merge the dicts
F1_final == Merge(Merge(cve, ai.d), EpssFields)

\* an entry that exists is kept: first writer wins
F1_store_keep_first(store, c, now, p30) ==
  [k \in DOMAIN store \cup {c.cve_id} |->
     IF k \in DOMAIN store THEN store[k]
     ELSE [cvss_score |-> c.cvss_score, epss_now |-> now, epss_30 |-> p30]]

\* DATA_STORE[data.cve_id] = {...}: one dict built from the request's locals
\* and bound to the key in a single assignment
F1_store(store, c, now, p30) ==
  [k \in DOMAIN store \cup {c.cve_id} |->
     IF k = c.cve_id
     THEN [cvss_score |-> c.cvss_score, epss_now |-> now, epss_30 |-> p30]
     ELSE store[k]]

F1_Assemble ==
  /\ variant = "fastapi1"
  /\ pc = "predicted"
  /\ DATA_STORE' = F1_store(DATA_STORE, cve, epss_now, epss_30)
  /\ result' = Ok(F1_final)
  /\ pc' = "done"
  /\ UNCHANGED <<variant, credential, cve, completion, ai, oracle, epss_now,
                 epss_30, tie, calls>>
  /\ steps' = Append(steps, "assembly")
  /\ completed' =
       [k \in DOMAIN completed \cup {cve.cve_id} |->
          IF k = cve.cve_id THEN <<cve.cvss_score, epss_now, epss_30>>
          ELSE completed[k]]
  /\ overwrote' = /\ cve.cve_id \in DOMAIN DATA_STORE
                  /\ DATA_STORE[cve.cve_id] # DATA_STORE'[cve.cve_id]
  /\ Delivered

\* fastapi(2).py analyze lines 243-257: ai[...] raises on a missing key or a list
F2_ResponseKeys == BundleFields \cup {"affected_assets"}

F2_response ==
  [cve_id |-> cve.cve_id, cvss_vector |-> cve.cvss_vector,
   severity |-> cve.severity, cvss_score |-> cve.cvss_score,
   simple_summary |-> ai.d["simple_summary"],
   simple_description |-> ai.d["simple_description"],
   affected_products |-> ai.d["affected_products"],
   affected_assets |-> ai.d["affected_assets"],
   fixes |-> ai.d["fixes"],
   epss_score |-> epss_now, epss_30d_prediction |-> epss_30]

F2_Assemble ==
  /\ variant = "fastapi2"
  /\ pc = "predicted"
  /\ IF HasKeys(ai, F2_ResponseKeys)
     THEN /\ result' = Ok(F2_response)
          /\ pc' = "done"
     ELSE /\ result' = Raised("analyze")
          /\ pc' = "failed"
  /\ UNCHANGED <<variant, credential, cve, completion, ai, oracle, epss_now,
                 epss_30, tie, calls, DATA_STORE,
                 completed, overwrote>>
  /\ steps' = Append(steps, "assembly")
  /\ Delivered

\* finallayer3.py final_output lines 161-177
Fl3_final_output ==
  [cve_id |-> cve.cve_id, severity |-> cve.severity, cvss_score |-> cve.cvss_score,
   simple_summary |-> ai.d["simple_summary"],
   simple_description |-> ai.d["simple_description"],
   affected_products |-> ai.d["affected_products"],
   fixes |-> ai.d["fixes"],
   epss_score |-> epss_now, epss_30d_prediction |-> epss_30]

Fl3_Final ==
  /\ variant = "finallayer3"
  /\ pc = "predicted"
  /\ IF HasKeys(ai, BundleFields)
     THEN /\ result' = Ok(Fl3_final_output)
          /\ pc' = "done"
     ELSE /\ result' = Raised("final_output")
          /\ pc' = "failed"
  /\ UNCHANGED <<variant, credential, cve, completion, ai, oracle, epss_now,
                 epss_30, tie, calls, DATA_STORE,
                 completed, overwrote>>
  /\ steps' = Append(steps, "assembly")
  /\ Delivered

\* the handler returns: its locals are gone, the server waits for a request
\* (the script of finallayer3.py exits instead)
Return ==
  /\ variant # "finallayer3"
  /\ pc \in Finished
  /\ pc' = "idle"
  /\ cve' = NoRecord
  /\ result' = NoResult
  /\ Fresh
  /\ UNCHANGED <<variant, credential, DATA_STORE,
                 completed>>
  /\ Delivered

(***************************************************************************)
(* fastapi(1).py GET /visuals/{cve_id}                                     *)
(* analyze is an async handler without an await: it runs on the event loop *)
(* from start to end, so two analyses never overlap.  visuals is a plain   *)
(* function run on a worker thread: it can come between any two steps of   *)
(* an analysis.  Its only access to shared state is DATA_STORE.get.        *)
(***************************************************************************)
VisualsIds == {IdWebp, IdSsh, IdNotACve}

visuals_response(store, id) ==
  IF id \notin DOMAIN store
  THEN [status |-> 404, cve_id |-> id, data |-> <<>>]
  ELSE [status |-> 200, cve_id |-> id,
        data |-> <<store[id].cvss_score, store[id].epss_now, store[id].epss_30>>]

Visuals ==
  /\ variant = "fastapi1"
  /\ \E id \in VisualsIds : visuals' = visuals_response(DATA_STORE, id)
  /\ UNCHANGED <<variant, credential, pc, cve, completion, ai, oracle,
                 epss_now, epss_30, tie, result, DATA_STORE, calls,
                 steps, completed, overwrote>>

Next ==
  \/ F1_Validate \/ F2_Validate \/ Fl3_Main
  \/ F1_AiGenerate \/ F2_AiAnalyze \/ Fl3_Summarize
  \/ F1_FetchEpss \/ F2_EpssLive \/ Fl3_FetchEpss
  \/ PredictStep
  \/ F1_Assemble \/ F2_Assemble \/ Fl3_Final
  \/ Return

Spec == Init /\ [][Next]_vars

\* the fastapi(1).py server with both of its routes
InitStore == Init /\ variant = "fastapi1"

NextStore ==
  \/ F1_Validate \/ F1_AiGenerate \/ F1_FetchEpss \/ PredictStep
  \/ F1_Assemble \/ Return \/ Visuals

SpecStore == InitStore /\ [][NextStore]_vars

(***************************************************************************)
(* The projection engines on their own: every variant's function applied   *)
(* to every current of Currents                                            *)
(***************************************************************************)
InitProject ==
  /\ variant \in Variants
  /\ credential = TRUE
  /\ pc = "current"
  /\ cve = NoRecord
  /\ completion = NotCalled
  /\ ai = PyNone
  /\ oracle = NoOracle
  /\ epss_now \in Currents
  /\ epss_30 = 0
  /\ tie = 0
  /\ result = NoResult
  /\ DATA_STORE = [k \in {} |-> <<>>]
  /\ calls = NoCalls
  /\ steps = <<>>
  /\ completed = [k \in {} |-> <<>>]
  /\ overwrote = FALSE
  /\ visuals = NoVisuals

Fl3_Predict ==
  /\ variant = "finallayer3"
  /\ pc = "current"
  /\ \E t \in TieChoices(variant, epss_now) :
       /\ tie' = t
       /\ epss_30' = Fl3_predict_epss_30d(epss_now, t)
  /\ pc' = "projected"
  /\ UNCHANGED <<variant, credential, cve, completion, ai, oracle, epss_now,
                 result, calls, DATA_STORE,
                 steps, completed, overwrote, visuals>>

F1_Predict ==
  /\ variant = "fastapi1"
  /\ pc = "current"
  /\ \E t \in TieChoices(variant, epss_now) :
       /\ tie' = t
       /\ epss_30' = F1_predict_epss_30d(epss_now, t)
  /\ pc' = "projected"
  /\ UNCHANGED <<variant, credential, cve, completion, ai, oracle, epss_now,
                 result, calls, DATA_STORE,
                 steps, completed, overwrote, visuals>>

F2_Predict ==
  /\ variant = "fastapi2"
  /\ pc = "current"
  /\ \E t \in TieChoices(variant, epss_now) :
       /\ tie' = t
       /\ epss_30' = epss_predict(epss_now, t)
  /\ pc' = "projected"
  /\ UNCHANGED <<variant, credential, cve, completion, ai, oracle, epss_now,
                 result, calls, DATA_STORE,
                 steps, completed, overwrote, visuals>>

NextProject == Fl3_Predict \/ F1_Predict \/ F2_Predict

SpecProject == InitProject /\ [][NextProject]_vars

(***************************************************************************)
(* Claims about the projection engines (checked under SpecProject)         *)
(***************************************************************************)
Projected(v) == pc = "projected" /\ variant = v

\* C1: finallayer3.py predict_epss_30d follows the canonical band table on
\* [0,1]: multiplier 1.30 below 0.005, 1.15 on [0.005, 0.02), 1.05 on
\* [0.02, 0.10), 0.97 from 0.10 on (a threshold belongs to the higher band),
\* and the result is the product capped at 1.0 and rounded to 5 places.
C1_CanonicalBandTable ==
  Projected("finallayer3") =>
    /\ (epss_now < 50000
          => epss_30 = Min(One5, Round5(epss_now * 130, tie)))
    /\ (epss_now >= 50000 /\ epss_now < 200000
          => epss_30 = Min(One5, Round5(epss_now * 115, tie)))
    /\ (epss_now >= 200000 /\ epss_now < 1000000
          => epss_30 = Min(One5, Round5(epss_now * 105, tie)))
    /\ (epss_now >= 1000000
          => epss_30 = Round5(epss_now * 97, tie))

\* C1 witness: the threshold 0.005 itself is projected with 1.15 (0.00575),
\* and 1.0 is projected to 0.97
C1_Witness ==
  /\ Projected("finallayer3")
  /\ \/ epss_now = 50000 /\ epss_30 = 575
     \/ epss_now = Scale /\ epss_30 = 97000

\* C2: every variant's projection of a current in [0,1] lies within [0,1]
C2_ProjectionInUnitInterval ==
  pc = "projected" => (epss_30 >= 0 /\ epss_30 <= One5)

\* C10: fastapi(1).py predict_epss_30d never returns a value below its input
C10_NeverBelowCurrent ==
  Projected("fastapi1") => epss_30 * (Scale \div One5) >= epss_now

(***************************************************************************)
(* Claims about the request pipeline (checked under Spec)                  *)
(***************************************************************************)
Services == {"fastapi1", "fastapi2"}
AfterAi == {"ai_done", "epss_done", "predicted", "done", "failed"}
AfterOracle == {"epss_done", "predicted", "done", "failed"}

\* C3: the score-oracle adapter of every variant never raises: a network
\* error, timeout, HTTP error status, malformed payload or empty data list
\* yields exactly 0.0, anything else the probability of the first element.
C3_OracleNeverRaises ==
  oracle.kind # "not_called" =>
    /\ result.origin # "fetch_epss"
    /\ pc \in AfterOracle
    /\ epss_now = (IF oracle.kind = "ok" THEN oracle.epss ELSE 0)

\* C4: without a credential ai_analyze makes no external call and returns a
\* bundle that echoes summary and description verbatim and whose
\* affected_products and fixes are non-empty.
C4_NoCredentialFallback ==
  (variant = "fastapi2" /\ ~credential /\ pc \in AfterAi) =>
    /\ calls.completion = 0
    /\ completion = NotCalled
    /\ HasKeys(ai, BundleFields)
    /\ ai.d["simple_summary"] = cve.summary
    /\ ai.d["simple_description"] = cve.description
    /\ ai.d["affected_products"] # <<>>
    /\ ai.d["fixes"] # <<>>

\* C4 witness: a record with neither keyword analysed without a credential:
\* the only product is the generic placeholder
C4_Witness ==
  /\ variant = "fastapi2" /\ ~credential /\ pc = "done"
  /\ cve.summary = <<"b", "u", "g">>
  /\ ai.d["affected_products"] = generic_products
  /\ result.body["simple_summary"] = <<"b", "u", "g">>

\* the completion call was made and gave nothing usable: it failed, or its
\* text holds no JSON object with the four named fields
Unusable(o) ==
  \/ o.kind \in CallFailures
  \/ o.kind = "content" /\ o.body \in {"text", "bad_braces", "array", "obj_empty"}

\* C5: with a credential, when the completion call fails or its output is
\* not the required JSON object, the completion step of fastapi(1).py and
\* fastapi(2).py substitutes the fallback bundle of the no-credential case:
\* summary and description echoed, keyword-derived products, the fixed
\* four-item remediation list.
C5_FailureGivesFallback ==
  (variant \in Services /\ credential /\ pc \in AfterAi /\ Unusable(completion)) =>
    /\ HasKeys(ai, BundleFields)
    /\ ai.d["fixes"] = fallback_fixes
    /\ ai.d["affected_products"] # <<>>
    /\ (variant = "fastapi2" => ai = PyDict(fallback_bundle(cve)))

\* C6: for every outcome of the completion collaborator the bundle returned
\* by the completion step has non-empty affected_products and fixes.
C6_ListsNeverEmpty ==
  (variant \in Services /\ pc \in AfterAi) =>
    /\ HasKeys(ai, {"affected_products", "fixes"})
    /\ ai.d["affected_products"] # <<>>
    /\ ai.d["fixes"] # <<>>

\* the identifier pattern of the specification: CVE-YYYY-NNNN+
SpecCvePattern(s) ==
  /\ Len(s) >= 13
  /\ s[1] = "C" /\ s[2] = "V" /\ s[3] = "E" /\ s[4] = "-"
  /\ \A i \in 5..8 : s[i] \in DigitChars
  /\ s[9] = "-"
  /\ \A i \in 10..Len(s) : s[i] \in DigitChars

\* C7: in both services a record whose identifier does not match
\* CVE-YYYY-NNNN+, whose severity is not one of the five levels or whose
\* score is outside [0,10] is rejected before any external call.
C7_InvalidRejected ==
  variant \in Services =>
    /\ (pc = "rejected" => calls = NoCalls /\ result.status = "invalid")
    /\ (pc \notin {"idle", "rejected"} =>
          /\ SpecCvePattern(cve.cve_id)
          /\ cve.severity \in SeverityEnum
          /\ cve.cvss_score >= 0 /\ cve.cvss_score <= 100)

ResultFields ==
  {"simple_summary", "simple_description", "affected_products", "fixes",
   "epss_score", "epss_30d_prediction"}

\* C8: once a record has passed validation analyze never fails: whatever
\* the completion collaborator and the score oracle do, a complete result
\* is returned and no exception reaches the caller.
C8_AnalyzeNeverFails ==
  variant \in Services =>
    /\ pc # "failed"
    /\ result.status # "exception"
    /\ (pc = "done" =>
          result.status = "ok" /\ ResultFields \subseteq DOMAIN result.body)

\* the record of the end-to-end scenario, the completion collaborator
\* unavailable and the oracle answering 0.02
Scenario ==
  /\ cve.cve_id = IdWebp
  /\ cve.cvss_score = 98
  /\ cve.severity = <<"C", "R", "I", "T", "I", "C", "A", "L">>
  /\ oracle = [kind |-> "ok", epss |-> 200000]
  /\ (completion = NotCalled \/ completion.kind \in CallFailures)

AllSteps == <<"completion", "oracle", "projection", "assembly">>

\* C11: in every analysis of a valid record the steps run in the order
\* completion, score oracle, projection, assembly; the oracle is queried
\* exactly once and the projection is computed from the score it returned,
\* also when the completion step failed or fell back: no step is skipped
\* because another failed.
C11_StepsInOrder ==
  /\ \A n \in 1..Len(steps) : steps[n] = AllSteps[n]
  /\ pc \in {"done", "failed"} =>
       /\ steps = AllSteps
       /\ calls.oracle = 1
       /\ epss_now = (IF oracle.kind = "ok" THEN oracle.epss ELSE 0)
       /\ epss_30 = Predict(variant, epss_now, tie)

(***************************************************************************)
(* Claims about DATA_STORE (checked under SpecStore)                       *)
(***************************************************************************)
TripleOf(entry) == <<entry.cvss_score, entry.epss_now, entry.epss_30>>

\* C12: after any interleaving of analyze and visuals requests DATA_STORE[id]
\* is exactly the (cvss_score, epss_now, epss_30) of the valid analysis of id
\* that completed last, a whole triple of one request; analyses of other
\* identifiers and rejected inputs leave it alone; visuals(id) answers 404
\* exactly when no valid analysis of id has completed.
C12_LastWriterWins ==
  /\ DOMAIN DATA_STORE = DOMAIN completed
  /\ \A id \in DOMAIN DATA_STORE :
       /\ DOMAIN DATA_STORE[id] = {"cvss_score", "epss_now", "epss_30"}
       /\ TripleOf(DATA_STORE[id]) = completed[id]
  /\ pc = "done" =>
       /\ cve.cve_id \in DOMAIN DATA_STORE
       /\ TripleOf(DATA_STORE[cve.cve_id]) = <<cve.cvss_score, epss_now, epss_30>>
  /\ visuals # NoVisuals =>
       /\ visuals.status \in {200, 404}
       /\ visuals.status = 404 <=> visuals.cve_id \notin DOMAIN completed
       /\ visuals.status = 200 => visuals.data = completed[visuals.cve_id]

\* C12 witness: a second analysis of CVE-2023-4863 has replaced the entry of
\* an earlier one, the entry of CVE-2024-6387 is still there, and visuals
\* answers with the new triple
C12_Witness ==
  /\ pc = "done" /\ overwrote
  /\ cve.cve_id = IdWebp
  /\ DOMAIN DATA_STORE = {IdWebp, IdSsh}
  /\ TripleOf(DATA_STORE[IdSsh]) # TripleOf(DATA_STORE[IdWebp])
  /\ visuals.status = 200 /\ visuals.cve_id = IdWebp
  /\ visuals.data = <<cve.cvss_score, epss_now, epss_30>>

(***************************************************************************)
(* Claims about the fallback bundle (checked under Spec)                   *)
(***************************************************************************)
\* the record's text holds the keyword, in its summary or its description,
\* in any case
TextHas(c, kw) ==
  Contains(Lower(c.summary), kw) \/ Contains(Lower(c.description), kw)

InList(x, l) == \E i \in DOMAIN l : l[i] = x

\* ai_analyze returned the fallback bundle: no credential, or the call or
\* the parse failed
FellBack ==
  /\ variant = "fastapi2"
  /\ pc \in AfterAi
  /\ \/ completion = NotCalled
     \/ completion.kind \in CallFailures
     \/ completion.kind = "content" /\ JsonLoadsContent(completion).raised

\* C13: in the fallback bundle affected_products holds "OpenSSH" whenever
\* the record's text (summary and description) contains "ssh", "Linux
\* systems" whenever it contains "linux", and is exactly the generic
\* placeholder when it contains neither; fixes is the fixed four-item list.
C13_KeywordProducts ==
  FellBack =>
    /\ HasKeys(ai, BundleFields)
    /\ (TextHas(cve, <<"s", "s", "h">>) => InList("OpenSSH", ai.d["affected_products"]))
    /\ (TextHas(cve, <<"l", "i", "n", "u", "x">>) => InList("Linux systems", ai.d["affected_products"]))
    /\ (~TextHas(cve, <<"s", "s", "h">>) /\ ~TextHas(cve, <<"l", "i", "n", "u", "x">>)
          => ai.d["affected_products"] = generic_products)
    /\ ai.d["fixes"] = fallback_fixes
    /\ Len(ai.d["fixes"]) = 4


====
